---- MODULE Spec2Model ----
(***************************************************************************)
(* Model of raster_mapping (src/src/lib.rs): Raster<f32>, the weighted     *)
(* overlay Raster::algebra over a HashMap<String, f32>, and the three      *)
(* approximate comparisons AbsDiffEq / RelativeEq / UlpsEq of Raster<T>.   *)
(*                                                                         *)
(* An Array2<f32> is a record [shape |-> <<rows, cols>>, data |-> s] with  *)
(* s the elements in logical (row-major) order.  An f32 is modelled by the *)
(* integer it holds: every value of the model is an integer-valued f32,    *)
(* and every arithmetic result is rounded to the 24-bit significand of     *)
(* binary32 (round to nearest, ties to even).  NaN, the infinities and     *)
(* negative zero are outside the modelled inputs.                          *)
(*                                                                         *)
(* A panic (an unwrap() on an Err, or ndarray's shape check) ends the call *)
(* in pc = "panicked" with err naming its cause; nothing is returned.      *)
(* An optional value (a moved-out or not yet assigned local, the returned  *)
(* Raster) is a sequence of length 0 or 1.                                 *)
(***************************************************************************)
EXTENDS Integers, Sequences, FiniteSets

VARIABLES
    pc,            \* position inside Raster::algebra
    maps,          \* the HashMap<String, f32> argument: filename -> weight
    order,         \* the order in which maps.iter() yields the keys
    map,           \* the pair bound by `Some(map)` / `for map in`
    data,          \* local `data`  (<<>> once moved into the product)
    weight,        \* local `weight`
    result,        \* local `result`
    rest,          \* what maps.iter().skip(1) has still to yield
    loads,         \* the filenames get_data was called with, in call order
    ret,           \* the Raster handed back to the caller (<<>> until then)
    err,           \* cause of the panic, "none" while there is none
    lhs, rhs,      \* the two rasters of a comparison
    op,            \* which comparison ran: "none", "abs", "rel", "ulps"
    epsilon, max_relative, max_ulps,   \* its tolerances
    verdict        \* the boolean it returned (<<>> before it ran)

algebraVars == <<pc, maps, order, map, data, weight, result, rest, loads, ret, err>>
approxVars  == <<lhs, rhs, op, epsilon, max_relative, max_ulps, verdict>>
vars == <<pc, maps, order, map, data, weight, result, rest, loads, ret, err,
          lhs, rhs, op, epsilon, max_relative, max_ulps, verdict>>

----------------------------------------------------------------------------
(* Bounds *)

\* largest number of (filename, weight) pairs in the mapping given to algebra
MaxSources == 3

\* largest number of elements of a raster handed to a comparison
MaxElems == 2

----------------------------------------------------------------------------
(* f32 *)

\* number of significand bits of f32 (implicit bit included)
MantissaBits == 24

\* exponent bias of f32
ExpBias == 127

RECURSIVE Pow2(_)
Pow2(k) == IF k = 0 THEN 1 ELSE 2 * Pow2(k - 1)

Abs(x) == IF x < 0 THEN -x ELSE x

Max(a, b) == IF b > a THEN b ELSE a

Min(a, b) == IF a < b THEN a ELSE b

\* spacing of the f32 values around the magnitude a
RECURSIVE Ulp(_)
Ulp(a) == IF a < Pow2(MantissaBits) THEN 1 ELSE 2 * Ulp(a \div 2)

\* the f32 nearest to the integer x, ties to the even significand
F32Round(x) ==
    LET a == Abs(x)
        u == Ulp(a)
        q == a \div u
        r == a % u
        m == IF 2 * r < u THEN q
             ELSE IF 2 * r > u THEN q + 1
             ELSE IF q % 2 = 0 THEN q ELSE q + 1
    IN  IF x < 0 THEN -(m * u) ELSE m * u

F32Mul(a, b) == F32Round(a * b)

F32Add(a, b) == F32Round(a + b)

F32Sub(a, b) == F32Round(a - b)

\* f32::signum: 1.0 for +0.0 and positive values, -1.0 for negative ones
F32Signum(x) == IF x < 0 THEN -1 ELSE 1

\* binary exponent of the magnitude a >= 1
RECURSIVE Exponent(_)
Exponent(a) == IF a < 2 THEN 0 ELSE 1 + Exponent(a \div 2)

\* the bit pattern of |x| (the 31 bits below the sign bit of the transmuted f32)
F32MagnitudeBits(x) ==
    LET a == Abs(x)
        e == Exponent(a)
        m == IF e >= MantissaBits - 1
             THEN a \div Pow2(e - (MantissaBits - 1))
             ELSE a * Pow2((MantissaBits - 1) - e)
    IN  IF a = 0 THEN 0
        ELSE (e + ExpBias) * Pow2(MantissaBits - 1) + (m - Pow2(MantissaBits - 1))

----------------------------------------------------------------------------
(* Array2<f32> *)

Elems(shape) == shape[1] * shape[2]

\* mutant of EmptyArray2: an array of no rows at all
ZeroRowsArray2 == [shape |-> <<0, 0>>, data |-> <<>>]

\* array![[]] : one row of zero columns
EmptyArray2 == [shape |-> <<1, 0>>, data |-> <<>>]

\* Array2::from_shape_vec((rows, cols), v): Err unless v holds rows*cols elements
FromShapeVec(shape, v) ==
    IF Len(v) = Elems(shape) THEN <<[shape |-> shape, data |-> v]>> ELSE <<>>

\* `weight * data` : f32 * Array2<f32>, element by element
ScalarMul(w, arr) ==
    [shape |-> arr.shape,
     data  |-> [i \in 1..Len(arr.data) |-> F32Mul(w, arr.data[i])]]

\* whether ndarray can broadcast an array of shape `from` to shape `to`
CanBroadcast(from, to) ==
    \A d \in 1..2 : from[d] = to[d] \/ from[d] = 1

\* element (i, j), 0-based, of arr broadcast to a larger shape
BroadcastAt(arr, i, j) ==
    LET bi == IF arr.shape[1] = 1 THEN 0 ELSE i
        bj == IF arr.shape[2] = 1 THEN 0 ELSE j
    IN  arr.data[bi * arr.shape[2] + bj + 1]

\* `a + b` : Array2 + Array2.  b is broadcast to the shape of a when the
\* shapes disagree; a panic (<<>>) when that is not possible.
ArrayAdd(a, b) ==
    IF ~CanBroadcast(b.shape, a.shape) THEN <<>>
    ELSE <<[shape |-> a.shape,
            data  |-> [k \in 1..Elems(a.shape) |->
                          F32Add(a.data[k],
                                 BroadcastAt(b, (k - 1) \div a.shape[2],
                                                (k - 1) % a.shape[2]))]]>>

----------------------------------------------------------------------------
(* The raster files the loader can be pointed at *)

Files == {"data1", "data2", "data3", "data4", "tall", "col", "missing"}

\* GDAL's view of a file: <<>> when Dataset::open fails, else the size
\* (cols, rows) and the band-1 buffer
Dataset(filename) ==
    CASE filename = "data1" -> <<[size |-> <<2, 1>>, buffer |-> <<Pow2(24), 1>>]>>
      [] filename = "data2" -> <<[size |-> <<2, 1>>, buffer |-> <<1, 2>>]>>
      [] filename = "data3" -> <<[size |-> <<2, 1>>, buffer |-> <<1, -3>>]>>
      [] filename = "data4" -> <<[size |-> <<2, 1>>, buffer |-> <<-Pow2(24), 5>>]>>
      [] filename = "tall"  -> <<[size |-> <<2, 2>>, buffer |-> <<1, 2, 3, 4>>]>>
      [] filename = "col"   -> <<[size |-> <<1, 2>>, buffer |-> <<7, 9>>]>>
      [] OTHER              -> <<>>

\* the weights a mapping may give a file
Weights == {-1, 2}

\* mutant of get_data: a file that cannot be opened yields an empty grid
get_data_or_empty(filename) ==
    LET dataset == Dataset(filename)
    IN  IF dataset = <<>> THEN <<[shape |-> <<1, 0>>, data |-> <<>>]>>
        ELSE FromShapeVec(<<dataset[1].size[2], dataset[1].size[1]>>, dataset[1].buffer)

\* Raster::get_data: <<grid>>, or <<>> when one of its unwrap()s panics
get_data(filename) ==
    LET dataset == Dataset(filename)
    IN  IF dataset = <<>> THEN <<>>
        ELSE LET cols == dataset[1].size[1]
                 rows == dataset[1].size[2]
             IN  FromShapeVec(<<rows, cols>>, dataset[1].buffer)

----------------------------------------------------------------------------
(* Raster::algebra, statement by statement *)

\* every order in which a HashMap holding the keys S may iterate
Orders(S) ==
    {o \in [1..Cardinality(S) -> S] : \A i, j \in DOMAIN o : i # j => o[i] # o[j]}

\* mutant of IterFirst: the seed is the pair the iteration yields last
IterLast(o) == IF o = <<>> THEN <<>> ELSE <<o[Len(o)]>>

\* maps.iter().next()
IterFirst(o) == IF o = <<>> THEN <<>> ELSE <<o[1]>>

\* mutant of IterSkip1: the loop runs over every pair, the seed included
IterSkipNone(o) == o

\* maps.iter().skip(1)
IterSkip1(o) == SubSeq(o, 2, Len(o))

\* mutant of SeedProduct: the seed grid is taken without its weight
SeedWithoutWeight(w, d) == d

\* result = weight * data
SeedProduct(w, d) == ScalarMul(w, d)

\* result = result + weight * data
Accumulate(res, w, d) == ArrayAdd(res, ScalarMul(w, d))

Init ==
    /\ pc = "idle"
    /\ maps = <<>>
    /\ order = <<>>
    /\ map = <<>>
    /\ data = <<>>
    /\ weight = <<>>
    /\ result = <<>>
    /\ rest = <<>>
    /\ loads = <<>>
    /\ ret = <<>>
    /\ err = "none"
    /\ lhs = EmptyArray2
    /\ rhs = EmptyArray2
    /\ op = "none"
    /\ epsilon = 0
    /\ max_relative = <<0, 1>>
    /\ max_ulps = 0
    /\ verdict = <<>>

\* the caller builds a mapping and calls Raster::algebra(maps); line 48
Call ==
    /\ pc = "idle"
    /\ \E keys \in SUBSET Files :
         /\ Cardinality(keys) <= MaxSources
         /\ \E m \in [keys -> Weights] : \E o \in Orders(keys) :
              /\ maps' = m
              /\ order' = o
    /\ result' = <<EmptyArray2>>
    /\ pc' = "first"
    /\ UNCHANGED <<map, data, weight, rest, loads, ret, err, approxVars>>

\* lines 50-54: first is Some(map); data = Self::get_data(map.0)
LoadFirst ==
    /\ pc = "first"
    /\ IterFirst(order) # <<>>
    /\ LET key == IterFirst(order)[1]
           got == get_data(key)
       IN  /\ map' = <<key>>
           /\ loads' = Append(loads, key)
           /\ IF got = <<>>
              THEN /\ pc' = "panicked"
                   /\ err' = "LoadError"
                   /\ data' = data
              ELSE /\ pc' = "seed"
                   /\ err' = err
                   /\ data' = got
    /\ UNCHANGED <<maps, order, weight, result, rest, ret, approxVars>>

\* lines 55-56: weight = *map.1; result = weight * data
Seed ==
    /\ pc = "seed"
    /\ weight' = <<maps[map[1]]>>
    /\ result' = <<SeedProduct(maps[map[1]], data[1])>>
    /\ data' = <<>>
    /\ pc' = "for"
    /\ UNCHANGED <<maps, order, map, rest, loads, ret, err, approxVars>>

\* line 59: first is None; println!("No maps.")
NoMaps ==
    /\ pc = "first"
    /\ IterFirst(order) = <<>>
    /\ pc' = "for"
    /\ UNCHANGED <<maps, order, map, data, weight, result, rest, loads, ret, err,
                   approxVars>>

\* line 62: the loop's iterator maps.iter().skip(1) is built
ForInit ==
    /\ pc = "for"
    /\ rest' = IterSkip1(order)
    /\ pc' = "loop"
    /\ UNCHANGED <<maps, order, map, data, weight, result, loads, ret, err,
                   approxVars>>

\* lines 62-63: the iterator yields a pair; data = Self::get_data(map.0)
LoadNext ==
    /\ pc = "loop"
    /\ rest # <<>>
    /\ LET key == Head(rest)
           got == get_data(key)
       IN  /\ map' = <<key>>
           /\ rest' = Tail(rest)
           /\ loads' = Append(loads, key)
           /\ IF got = <<>>
              THEN /\ pc' = "panicked"
                   /\ err' = "LoadError"
                   /\ data' = data
              ELSE /\ pc' = "accum"
                   /\ err' = err
                   /\ data' = got
    /\ UNCHANGED <<maps, order, weight, result, ret, approxVars>>

\* lines 64-65: weight = *map.1; result = result + weight * data
Accum ==
    /\ pc = "accum"
    /\ weight' = <<maps[map[1]]>>
    /\ data' = <<>>
    /\ LET sum == Accumulate(result[1], maps[map[1]], data[1])
       IN  IF sum = <<>>
           THEN /\ pc' = "panicked"
                /\ err' = "ShapeMismatch"
                /\ result' = <<>>
           ELSE /\ pc' = "loop"
                /\ err' = err
                /\ result' = sum
    /\ UNCHANGED <<maps, order, map, rest, loads, ret, approxVars>>

\* lines 68-70: the iterator is exhausted; Raster::<f32>{ data: result }
Return ==
    /\ pc = "loop"
    /\ rest = <<>>
    /\ ret' = result
    /\ result' = <<>>
    /\ pc' = "done"
    /\ UNCHANGED <<maps, order, map, data, weight, rest, loads, err, approxVars>>

Next ==
    \/ Call
    \/ LoadFirst
    \/ Seed
    \/ NoMaps
    \/ ForInit
    \/ LoadNext
    \/ Accum
    \/ Return

Spec == Init /\ [][Next]_vars

\* Raster::algebra as a function of the mapping and its iteration order:
\* <<grid>> when it returns, <<>> when it panics
RECURSIVE OverlayFrom(_, _, _)
OverlayFrom(res, m, o) ==
    IF o = <<>> THEN <<res>>
    ELSE LET got == get_data(Head(o))
         IN  IF got = <<>> THEN <<>>
             ELSE LET sum == Accumulate(res, m[Head(o)], got[1])
                  IN  IF sum = <<>> THEN <<>> ELSE OverlayFrom(sum[1], m, Tail(o))

Overlay(m, o) ==
    IF IterFirst(o) = <<>> THEN <<EmptyArray2>>
    ELSE LET got == get_data(IterFirst(o)[1])
         IN  IF got = <<>> THEN <<>>
             ELSE OverlayFrom(SeedProduct(m[IterFirst(o)[1]], got[1]), m, IterSkip1(o))

----------------------------------------------------------------------------
(* Vocabulary of the claims about Raster::algebra *)

Keys == DOMAIN maps

\* the file opens and decodes
Readable(k) == Dataset(k) # <<>>

\* the shape (rows, cols) the readable file k decodes to
ShapeOf(k) == <<Dataset(k)[1].size[2], Dataset(k)[1].size[1]>>

\* cell i (row-major) of the readable file k
CellOf(k, i) == Dataset(k)[1].buffer[i]

\* every source of the mapping loads, and all load to one shape
SameShaped == \A k1, k2 \in Keys : Readable(k1) /\ Readable(k2) /\ ShapeOf(k1) = ShapeOf(k2)

\* the mathematical sums  SUM w_k * g_k[i]  and  SUM |w_k * g_k[i]|  over the
\* keys listed in o, in unbounded integer arithmetic
RECURSIVE ExactSum(_, _)
ExactSum(o, i) ==
    IF o = <<>> THEN 0 ELSE maps[Head(o)] * CellOf(Head(o), i) + ExactSum(Tail(o), i)

RECURSIVE AbsSum(_, _)
AbsSum(o, i) ==
    IF o = <<>> THEN 0 ELSE Abs(maps[Head(o)] * CellOf(Head(o), i)) + AbsSum(Tail(o), i)

\* the rounding an n-term f32 sum of products can accumulate in cell i:
\* n * 2^-24 * SUM |w_k * g_k[i]|, which is 0 while that stays below one unit
RoundingSlack(i) == (Len(order) * AbsSum(order, i)) \div Pow2(MantissaBits)

Returned == pc = "done" /\ Len(ret) = 1

----------------------------------------------------------------------------
\* C1 (as stated): algebra on an empty mapping returns, without error and
\* without loading any source, the empty grid of shape 0 rows by 0 columns
\* holding zero elements.
C1_ZeroByZero ==
    (Keys = {} /\ pc \in {"done", "panicked"}) =>
        /\ Returned
        /\ err = "none"
        /\ loads = <<>>
        /\ ret[1].shape = <<0, 0>>
        /\ Len(ret[1].data) = 0

\* C1 (amended): algebra on an empty mapping returns, without error and
\* without loading any source, the empty grid array![[]], whose shape is
\* 1 row by 0 columns and which holds zero elements.
C1_EmptyGrid ==
    (Keys = {} /\ pc \in {"done", "panicked"}) =>
        /\ Returned
        /\ err = "none"
        /\ loads = <<>>
        /\ ret[1].shape = <<1, 0>>
        /\ Len(ret[1].data) = 0

C1_Witness == pc = "done" /\ Keys = {} /\ order = <<>>

\* C2: for a non-empty mapping whose sources all load to one shape, algebra
\* returns a grid of that shape whose every cell is the sum over all pairs of
\* weight * value, each pair counted exactly once; the f32 result is that
\* sum exactly while the rounding slack is 0 and within the slack otherwise.
C2_WeightedSum ==
    (Keys # {} /\ SameShaped) =>
        /\ pc # "panicked"
        /\ pc = "done" =>
             /\ Len(ret) = 1
             /\ ret[1].shape = ShapeOf(order[1])
             /\ Len(ret[1].data) = Elems(ShapeOf(order[1]))
             /\ \A i \in 1..Len(ret[1].data) :
                  Abs(ret[1].data[i] - ExactSum(order, i)) <= RoundingSlack(i)

C2_Witness ==
    /\ pc = "done"
    /\ Cardinality(Keys) = 3
    /\ SameShaped
    /\ \E k1, k2 \in Keys : maps[k1] # maps[k2]
    /\ \E i \in 1..Len(ret[1].data) : RoundingSlack(i) = 0 /\ ret[1].data[i] # 0

\* C3: whenever two sources of the mapping load to grids of different shapes,
\* algebra fails with ShapeMismatch and returns no grid.
C3_ShapeMismatch ==
    (/\ pc \in {"done", "panicked"}
     /\ \A k \in Keys : Readable(k)
     /\ \E k1, k2 \in Keys : ShapeOf(k1) # ShapeOf(k2))
    => (pc = "panicked" /\ err = "ShapeMismatch" /\ ret = <<>>)

\* C4: a source whose load fails ends the call at that load with a LoadError:
\* no later source is loaded and no grid is returned, so a call that returns a
\* grid has loaded every source of the mapping.
C4_LoadFailureAborts ==
    /\ \A i \in 1..Len(loads) :
         ~Readable(loads[i]) =>
            /\ i = Len(loads)
            /\ pc = "panicked"
            /\ err = "LoadError"
            /\ ret = <<>>
    /\ pc = "done" => \A k \in Keys : Readable(k)
    /\ ret # <<>> => pc = "done"

C4_Witness ==
    /\ pc = "panicked"
    /\ err = "LoadError"
    /\ Len(loads) = 3
    /\ ~Readable(loads[3])
    /\ result # <<>>

\* C5: for a non-empty mapping over same-shaped sources, every iteration
\* order of the mapping returns a grid of the same shape whose cells agree
\* with the returned ones: exactly while the rounding slack is 0, and
\* within twice the slack (each order is within one slack of the sum)
\* otherwise.
C5_SeedIndependent ==
    (pc = "done" /\ Keys # {} /\ SameShaped) =>
        \A o \in Orders(Keys) :
            /\ Overlay(maps, o) # <<>>
            /\ Overlay(maps, o)[1].shape = ret[1].shape
            /\ \A i \in 1..Len(ret[1].data) :
                 Abs(Overlay(maps, o)[1].data[i] - ret[1].data[i])
                     <= 2 * RoundingSlack(i)

\* three same-shaped sources for which another order rounds differently
C5_Witness ==
    /\ pc = "done"
    /\ Cardinality(Keys) = 3
    /\ SameShaped
    /\ \E o \in Orders(Keys) : o[1] # order[1] /\ Overlay(maps, o) # ret
    /\ \E o \in Orders(Keys) : o[1] # order[1] /\ Overlay(maps, o) = ret

\* the state part of C10: the loader is invoked on the keys in iteration
\* order, each at most once and, when the call returns, each exactly once
\* (the seed is the pair the loop skips); a loaded grid is held only
\* between its load and its accumulation.
C10_LoadsInOrder ==
    /\ Len(loads) <= Len(order)
    /\ \A i \in 1..Len(loads) : loads[i] = order[i]
    /\ pc = "done" =>
         /\ Len(loads) = Cardinality(Keys)
         /\ \A k \in Keys : Cardinality({i \in 1..Len(loads) : loads[i] = k}) = 1
    /\ (data # <<>>) <=> (pc \in {"seed", "accum"})

\* C10: a call of algebra on n pairs invokes get_data once per key, in
\* iteration order, n times when it returns; each load happens only after
\* the previously loaded grid was accumulated; maps is left unchanged.
C10_OneLoadPerKey ==
    /\ []C10_LoadsInOrder
    /\ [][/\ loads' # loads => (data = <<>> /\ data' = get_data(loads'[Len(loads')]))
          /\ pc # "idle" => (maps' = maps /\ order' = order)]_vars

C10_Witness == pc = "done" /\ Len(loads) = 3 /\ err = "none"

----------------------------------------------------------------------------
(* approx on f32, as called element by element by the Raster impls *)

\* f32::abs_diff_eq: f32::abs(self - other) <= epsilon
f32_abs_diff_eq(a, b, eps) == Abs(F32Sub(a, b)) <= eps

\* f32::relative_eq; max_rel = <<num, den>> stands for the f32 num / den,
\* den a power of two, so that largest * max_rel is exact and
\* abs_diff <= largest * num / den  iff  abs_diff <= floor(largest * num / den)
f32_relative_eq(a, b, eps, max_rel) ==
    IF a = b THEN TRUE
    ELSE LET abs_diff == Abs(F32Sub(a, b))
             largest  == Max(Abs(a), Abs(b))
         IN  IF abs_diff <= eps THEN TRUE
             ELSE abs_diff <= F32Mul(largest, max_rel[1]) \div max_rel[2]

\* f32::ulps_eq: within epsilon, or of one sign and at most max_ulps
\* representable values apart
f32_ulps_eq(a, b, eps, ulps) ==
    IF f32_abs_diff_eq(a, b, eps) THEN TRUE
    ELSE IF F32Signum(a) # F32Signum(b) THEN FALSE
    ELSE Abs(F32MagnitudeBits(a) - F32MagnitudeBits(b)) <= ulps

----------------------------------------------------------------------------
(* impl AbsDiffEq / RelativeEq / UlpsEq for Raster<T> *)

\* itertools::zip(&self.data, &other.data): the element pairs in logical
\* order, as many as the shorter of the two iterators yields
Zip(a, b) == [i \in 1..Min(Len(a.data), Len(b.data)) |-> <<a.data[i], b.data[i]>>]

RECURSIVE AbsDiffLoop(_, _)
AbsDiffLoop(pairs, eps) ==
    IF pairs = <<>> THEN TRUE
    ELSE IF ~f32_abs_diff_eq(Head(pairs)[1], Head(pairs)[2], eps) THEN FALSE
    ELSE AbsDiffLoop(Tail(pairs), eps)

\* mutant of abs_diff_eq: the loop returns after its first pair
abs_diff_eq_first_pair(self, other, eps) ==
    \/ Zip(self, other) = <<>>
    \/ f32_abs_diff_eq(Zip(self, other)[1][1], Zip(self, other)[1][2], eps)

abs_diff_eq(self, other, eps) == AbsDiffLoop(Zip(self, other), eps)

RECURSIVE RelativeLoop(_, _, _)
RelativeLoop(pairs, eps, max_rel) ==
    IF pairs = <<>> THEN TRUE
    ELSE IF ~f32_relative_eq(Head(pairs)[1], Head(pairs)[2], eps, max_rel) THEN FALSE
    ELSE RelativeLoop(Tail(pairs), eps, max_rel)

\* mutant of relative_eq: the elements are compared by abs_diff_eq
relative_eq_abs_only(self, other, eps, max_rel) ==
    AbsDiffLoop(Zip(self, other), eps)

relative_eq(self, other, eps, max_rel) == RelativeLoop(Zip(self, other), eps, max_rel)

RECURSIVE UlpsLoop(_, _, _)
UlpsLoop(pairs, eps, ulps) ==
    IF pairs = <<>> THEN TRUE
    ELSE IF ~f32_ulps_eq(Head(pairs)[1], Head(pairs)[2], eps, ulps) THEN FALSE
    ELSE UlpsLoop(Tail(pairs), eps, ulps)

\* mutant of ulps_eq: T::default_max_ulps() (4 for f32) replaces max_ulps
ulps_eq_default_ulps(self, other, eps, ulps) ==
    UlpsLoop(Zip(self, other), eps, 4)

ulps_eq(self, other, eps, ulps) == UlpsLoop(Zip(self, other), eps, ulps)

----------------------------------------------------------------------------
(* The comparisons applied to rasters drawn from a bounded set *)

\* element values: a negative one, zero, and two neighbouring f32 values
\* (2^24 and 2^24 + 2 have no f32 between them)
CmpVals == {-1, 0, Pow2(24), Pow2(24) + 2}

\* array![[]] and every non-empty shape of at most MaxElems elements
Shapes ==
    {<<1, 0>>} \cup
    {s \in (1..MaxElems) \X (1..MaxElems) : s[1] * s[2] <= MaxElems}

Rasters ==
    UNION {{[shape |-> s, data |-> d] : d \in [1..Elems(s) -> CmpVals]} : s \in Shapes}

Epsilons == {0, 1, 2}

\* 0, f32::EPSILON = 2^-23 (the default max_relative), and 1
MaxRelatives == {<<0, 1>>, <<1, Pow2(23)>>, <<1, 1>>}

MaxUlps == {0, 1}

InitApprox ==
    /\ pc = "idle"
    /\ maps = <<>>
    /\ order = <<>>
    /\ map = <<>>
    /\ data = <<>>
    /\ weight = <<>>
    /\ result = <<>>
    /\ rest = <<>>
    /\ loads = <<>>
    /\ ret = <<>>
    /\ err = "none"
    /\ lhs \in Rasters
    /\ rhs \in Rasters
    /\ op = "none"
    /\ epsilon = 0
    /\ max_relative = <<0, 1>>
    /\ max_ulps = 0
    /\ verdict = <<>>

\* lines 83-90
AbsDiffEq ==
    /\ op = "none"
    /\ \E eps \in Epsilons :
         /\ epsilon' = eps
         /\ verdict' = <<abs_diff_eq(lhs, rhs, eps)>>
    /\ op' = "abs"
    /\ UNCHANGED <<algebraVars, lhs, rhs, max_relative, max_ulps>>

\* lines 101-109
RelativeEq ==
    /\ op = "none"
    /\ \E eps \in Epsilons : \E mr \in MaxRelatives :
         /\ epsilon' = eps
         /\ max_relative' = mr
         /\ verdict' = <<relative_eq(lhs, rhs, eps, mr)>>
    /\ op' = "rel"
    /\ UNCHANGED <<algebraVars, lhs, rhs, max_ulps>>

\* lines 120-127
UlpsEq ==
    /\ op = "none"
    /\ \E eps \in Epsilons : \E mu \in MaxUlps :
         /\ epsilon' = eps
         /\ max_ulps' = mu
         /\ verdict' = <<ulps_eq(lhs, rhs, eps, mu)>>
    /\ op' = "ulps"
    /\ UNCHANGED <<algebraVars, lhs, rhs, max_relative>>

NextApprox ==
    \/ AbsDiffEq
    \/ RelativeEq
    \/ UlpsEq

SpecApprox == InitApprox /\ [][NextApprox]_vars

----------------------------------------------------------------------------
(* Vocabulary of the claims about the comparisons *)

SameShape == lhs.shape = rhs.shape

Cells == 1..Len(lhs.data)

\* |a - b| of cell i, the difference being the f32 one
Diff(i) == Abs(F32Sub(lhs.data[i], rhs.data[i]))

\* number of f32 values from one cell-i value to the other
UlpDistance(i) == Abs(F32MagnitudeBits(lhs.data[i]) - F32MagnitudeBits(rhs.data[i]))

OppositeSigns(i) == (lhs.data[i] < 0) # (rhs.data[i] < 0)

\* |a - b| <= max_relative * max(|a|, |b|) for cell i, max_relative = num / den
WithinRelative(i) ==
    Diff(i) <= (max_relative[1] * Max(Abs(lhs.data[i]), Abs(rhs.data[i])))
                   \div max_relative[2]

\* C6: a comparison of two grids of different shapes raises ShapeMismatch;
\* it yields no boolean.
C6_ShapeChecked ==
    (op # "none" /\ ~SameShape) => verdict = <<>>

\* C7: for grids of one shape, abs_diff_eq is true exactly when every
\* corresponding pair satisfies |a - b| <= epsilon.
C7_AbsDiffEq ==
    (op = "abs" /\ SameShape) =>
        (verdict[1] <=> \A i \in Cells : Diff(i) <= epsilon)

\* one cell differs by exactly epsilon, the other is equal: accepted
C7_Witness ==
    /\ op = "abs"
    /\ lhs.shape = <<1, 2>>
    /\ rhs.shape = <<1, 2>>
    /\ Diff(1) = 0
    /\ Diff(2) = epsilon
    /\ epsilon = 2
    /\ verdict = <<TRUE>>

\* C8: for grids of one shape, relative_eq is true exactly when every pair
\* satisfies |a - b| <= epsilon or |a - b| <= max_relative * max(|a|, |b|);
\* so whatever abs_diff_eq accepts at epsilon, relative_eq accepts at the
\* same epsilon for every max_relative.
C8_RelativeEq ==
    (op = "rel" /\ SameShape) =>
        /\ verdict[1] <=> \A i \in Cells : Diff(i) <= epsilon \/ WithinRelative(i)
        /\ (\A i \in Cells : Diff(i) <= epsilon) => verdict[1]

\* a large cell farther apart than epsilon but within the relative bound
C8_Witness ==
    /\ op = "rel"
    /\ SameShape
    /\ Len(lhs.data) = 2
    /\ \E i \in Cells : Diff(i) > epsilon /\ Abs(lhs.data[i]) >= Pow2(24)
    /\ max_relative = <<1, Pow2(23)>>
    /\ verdict = <<TRUE>>
    /\ ~abs_diff_eq(lhs, rhs, epsilon)

\* C9: for grids of one shape, ulps_eq is false whenever some pair is farther
\* apart than epsilon and either of opposite signs or more than max_ulps
\* representable values apart, and true otherwise: neighbouring values
\* farther apart than epsilon pass at max_ulps = 1 and fail at max_ulps = 0.
C9_UlpsEq ==
    (op = "ulps" /\ SameShape) =>
        (verdict[1] <=>
            ~\E i \in Cells :
                /\ Diff(i) > epsilon
                /\ OppositeSigns(i) \/ UlpDistance(i) > max_ulps)

\* neighbouring values farther apart than epsilon, accepted at max_ulps = 1
C9_Witness ==
    /\ op = "ulps"
    /\ SameShape
    /\ \E i \in Cells : Diff(i) > epsilon /\ UlpDistance(i) = 1
    /\ max_ulps = 1
    /\ verdict = <<TRUE>>

====
